---- MODULE Spec2Model ----
(***************************************************************************)
(* Model of the test status page script (src/app.js): fetchJson, pill,     *)
(* esc, renderLog, renderList and the top-level async load sequence.       *)
(*                                                                         *)
(* JavaScript strings are sequences of one-character strings; the literal  *)
(* parts of a template literal are single multi-character tokens, so text  *)
(* that comes from a template is never confused with text from data.       *)
(* JavaScript values are records with a type tag t.                        *)
(***************************************************************************)
EXTENDS Integers, Sequences, FiniteSets, TLC

VARIABLES
  pc,          \* position of the load sequence / of the function call
  started,     \* paths handed to fetch(), in call order
  settled,     \* outcome of every retrieval that completed, in order
  inflight,    \* paths whose retrieval has been started and has not settled
  data,        \* const data  (app.js:110)
  rec,         \* const rec   (app.js:111)
  nfpc,        \* const nfpc  (app.js:138)
  runPill, modePill, changesPill, errorsPill,   \* elements: [cls, text]
  statusText,  \* #statusText textContent
  log,         \* #log innerHTML
  nfpcList,    \* #nfpcList innerHTML
  nftcList,    \* #nftcList innerHTML
  console,     \* errors given to console.error
  arg,         \* argument of the function under call (function specifications)
  out          \* its result

vars == <<pc, started, settled, inflight, data, rec, nfpc, runPill, modePill,
          changesPill, errorsPill, statusText, log, nfpcList, nftcList,
          console, arg, out>>

dom == <<runPill, modePill, changesPill, errorsPill, statusText, log,
         nfpcList, nftcList>>

-----------------------------------------------------------------------------
(* Bounds of the model *)

\* longest data string enumerated character by character
MaxStrLen == 2
\* most entries in a changes / errors / items / refs array
MaxEntries == 2
\* longest undecodable response body beyond the diagnostic limit
MaxOver == 1

(* Program constants *)

\* e.head.slice(0,60), length > 60
HeadLimit == 60
\* text.slice(0,120)
DiagLimit == 120

-----------------------------------------------------------------------------
(* JavaScript values *)

Undef == [t |-> "undefined", v |-> <<>>]
Null == [t |-> "null", v |-> <<>>]
Str(s) == [t |-> "string", v |-> s]
Arr(a) == [t |-> "array", v |-> a]
Bool(b) == [t |-> "boolean", v |-> b]

\* ToBoolean, as used by ||, &&, ?: and !
Truthy(x) ==
  CASE x.t \in {"undefined", "null"} -> FALSE
    [] x.t = "string" -> x.v # <<>>
    [] x.t = "boolean" -> x.v
    [] OTHER -> TRUE

\* x || ''
OrEmpty(x) == IF Truthy(x) THEN x ELSE Str(<<>>)

\* x || []
OrEmptyArr(x) == IF Truthy(x) THEN x ELSE Arr(<<>>)

\* ${x} in a template literal, and x.toString() for a string
ToStringJS(x) ==
  CASE x.t = "string" -> x.v
    [] x.t = "undefined" -> <<"undefined">>
    [] x.t = "null" -> <<"null">>
    [] x.t = "boolean" -> IF x.v THEN <<"true">> ELSE <<"false">>
    [] OTHER -> <<"[object Object]">>

\* s.slice(0, n)
Slice0(s, n) == SubSeq(s, 1, IF Len(s) < n THEN Len(s) ELSE n)

Range(s) == {s[i] : i \in 1..Len(s)}

\* Array.prototype.join(sep) of an array of strings
RECURSIVE Join(_, _)
Join(parts, sep) ==
  IF parts = <<>> THEN <<>>
  ELSE IF Len(parts) = 1 THEN parts[1]
  ELSE parts[1] \o sep \o Join(Tail(parts), sep)

\* s.includes(sub)
Includes(s, sub) ==
  \E i \in 0..(Len(s) - Len(sub)) : SubSeq(s, i + 1, i + Len(sub)) = sub

UpperToLower ==
  [c \in {"A","B","C","D","E","F","G","H","I","J","K","L","M","N","O","P","Q",
          "R","S","T","U","V","W","X","Y","Z"} |->
     CASE c = "A" -> "a" [] c = "B" -> "b" [] c = "C" -> "c" [] c = "D" -> "d"
       [] c = "E" -> "e" [] c = "F" -> "f" [] c = "G" -> "g" [] c = "H" -> "h"
       [] c = "I" -> "i" [] c = "J" -> "j" [] c = "K" -> "k" [] c = "L" -> "l"
       [] c = "M" -> "m" [] c = "N" -> "n" [] c = "O" -> "o" [] c = "P" -> "p"
       [] c = "Q" -> "q" [] c = "R" -> "r" [] c = "S" -> "s" [] c = "T" -> "t"
       [] c = "U" -> "u" [] c = "V" -> "v" [] c = "W" -> "w" [] c = "X" -> "x"
       [] c = "Y" -> "y" [] c = "Z" -> "z"]

\* s.toLowerCase()
ToLowerCase(s) ==
  [i \in 1..Len(s) |-> IF s[i] \in DOMAIN UpperToLower THEN UpperToLower[s[i]] ELSE s[i]]

WhiteSpace == {" ", "\n", "\t", "\r"}

\* s.trim()
RECURSIVE TrimLeft(_)
TrimLeft(s) ==
  IF s # <<>> /\ Head(s) \in WhiteSpace THEN TrimLeft(Tail(s)) ELSE s

RECURSIVE TrimRight(_)
TrimRight(s) ==
  IF s # <<>> /\ s[Len(s)] \in WhiteSpace
  THEN TrimRight(SubSeq(s, 1, Len(s) - 1)) ELSE s

Trim(s) == TrimRight(TrimLeft(s))

-----------------------------------------------------------------------------
(* fetchJson (app.js:1-13) *)

\* new Error(message), and the errors the host throws
Err(name, message) == [name |-> name, message |-> message]

\* String(err): Error.prototype.toString
StringOfError(e) ==
  IF e.message = <<>> THEN <<e.name>> ELSE <<e.name, ": ">> \o e.message

Returned(v) == [ok |-> TRUE, value |-> v, err |-> Err("", <<>>)]
Thrown(e) == [ok |-> FALSE, value |-> Undef, err |-> e]

\* r.ok: status in the range 200-299
ResponseOk(status) == status >= 200 /\ status <= 299

\* JSON.parse(text): the host's decoder. A body carries its text and what
\* the decoder makes of it: json.ok is FALSE where the text is no JSON text.
JSONParse(body) ==
  IF body.json.ok THEN Returned(body.json.value)
  ELSE Thrown(Err("SyntaxError", <<"Unexpected token">>))

\* fetchJson with the body read and tested before the status
fetchJson_BlankFirst(path, r) ==
  IF ~r.net THEN Thrown(Err("TypeError", <<"Failed to fetch">>))
  ELSE IF Trim(r.body.text) = <<>> THEN Thrown(Err("Error", <<"EMPTY ", path>>))
  ELSE IF ~ResponseOk(r.status)
  THEN Thrown(Err("Error", <<"HTTP ", ToString(r.status), " ", path>>))
  ELSE IF ~Includes(ToLowerCase(OrEmpty(r.ct).v), <<"j", "s", "o", "n">>)
          /\ ~JSONParse(r.body).ok
  THEN Thrown(Err("Error", <<"NOT_JSON ", path, " ct=">> \o ToLowerCase(OrEmpty(r.ct).v)
                           \o <<" head=">> \o Slice0(r.body.text, DiagLimit)))
  ELSE JSONParse(r.body)

\* A response is [net, status, ct, body]: net = FALSE is fetch() rejecting;
\* ct is the content-type header, a string or Null when there is none.
fetchJson(path, r) ==
  IF ~r.net THEN Thrown(Err("TypeError", <<"Failed to fetch">>))
  ELSE IF ~ResponseOk(r.status)
  THEN Thrown(Err("Error", <<"HTTP ", ToString(r.status), " ", path>>))
  ELSE
    LET ct == ToLowerCase(OrEmpty(r.ct).v)
        text == r.body.text
    IN IF Trim(text) = <<>> THEN Thrown(Err("Error", <<"EMPTY ", path>>))
       ELSE IF ~Includes(ct, <<"j", "s", "o", "n">>)
       THEN IF JSONParse(r.body).ok THEN JSONParse(r.body)
            ELSE Thrown(Err("Error", <<"NOT_JSON ", path, " ct=">> \o ct
                                     \o <<" head=">> \o Slice0(text, DiagLimit)))
       ELSE JSONParse(r.body)

-----------------------------------------------------------------------------
(* pill (app.js:15-18): an element is [cls, text] *)

pill(el, type) ==
  [el EXCEPT !.cls = (@ \ {"ok", "warn", "bad"}) \cup (IF type = "" THEN {} ELSE {type})]

SetText(el, text) == [el EXCEPT !.text = text]

-----------------------------------------------------------------------------
(* esc (app.js:20-22) *)

Entity(m) ==
  CASE m = "&" -> <<"&", "a", "m", "p", ";">>
    [] m = "<" -> <<"&", "l", "t", ";">>
    [] m = ">" -> <<"&", "g", "t", ";">>
    [] m = "\"" -> <<"&", "q", "u", "o", "t", ";">>
    [] m = "'" -> <<"&", "#", "3", "9", ";">>

\* the replacement with the apostrophe left out of the character class
RECURSIVE Replace_NoApostrophe(_)
Replace_NoApostrophe(s) ==
  IF s = <<>> THEN <<>>
  ELSE (IF Head(s) \in {"&", "<", ">", "\""} THEN Entity(Head(s)) ELSE <<Head(s)>>)
       \o Replace_NoApostrophe(Tail(s))

\* .replace(/[&<>"']/g, m => map[m]) on a string
RECURSIVE Replace(_)
Replace(s) ==
  IF s = <<>> THEN <<>>
  ELSE (IF Head(s) \in {"&", "<", ">", "\"", "'"} THEN Entity(Head(s)) ELSE <<Head(s)>>)
       \o Replace(Tail(s))

\* (s ?? '').toString().replace(...)
esc(s) ==
  Replace(ToStringJS(IF s.t \in {"undefined", "null"} THEN Str(<<>>) ELSE s))

-----------------------------------------------------------------------------
(* renderLog (app.js:24-88). The fragment is kept as its parts: the value of *)
(* every ${...} hole of the template, in the order of the template.          *)

\* a[0]
First(a) == IF Len(a.v) >= 1 THEN a.v[1] ELSE Undef

\* x => x.url ? `<a href="${esc(x.url)}" ...>원문</a>` : ''   (app.js:36)
RefLink(x) ==
  IF Truthy(x.url)
  THEN <<"<a href=\"">> \o esc(x.url) \o <<"\" target=\"_blank\" rel=\"noreferrer\">LINK</a>">>
  ELSE <<>>

\* one <tr> of rowsChanges (app.js:28-38)
ChangeRow(c) ==
  [code |-> esc(c.code),
   title |-> esc(c.title),
   noticeNo |-> esc(OrEmpty(c.noticeNo)),
   announceDate |-> esc(OrEmpty(c.announceDate)),
   effectiveDate |-> esc(OrEmpty(c.effectiveDate)),
   reason |-> esc(OrEmpty(c.reason)),
   refs |-> LET rs == OrEmptyArr(c.refs).v
            IN Join([i \in 1..Len(rs) |-> RefLink(rs[i])], <<" ">>)]

\* the HEAD cell (app.js:48): title attribute and visible text
HeadTitle(e) == esc(OrEmpty(e.head))

\* the visible head cut after escaping instead of before
HeadCell_EscapeThenSlice(e) ==
  Slice0(esc(OrEmpty(e.head)), HeadLimit)
    \o (IF Len(OrEmpty(e.head).v) > HeadLimit THEN <<"...">> ELSE <<>>)

HeadCell(e) ==
  esc(Str(Slice0(OrEmpty(e.head).v, HeadLimit)))
    \o (IF Len(OrEmpty(e.head).v) > HeadLimit THEN <<"...">> ELSE <<>>)

\* one <tr> of rowsErrors (app.js:40-50)
ErrorRow(e) ==
  [code |-> esc(OrEmpty(e.code)),
   title |-> esc(OrEmpty(e.title)),
   where |-> esc(OrEmpty(e.where)),
   kind |-> esc(OrEmpty(e.kind)),
   status |-> esc(OrEmpty(e.status)),
   contentType |-> esc(OrEmpty(e.contentType)),
   headTitle |-> HeadTitle(e),
   headCell |-> HeadCell(e)]

\* the section always expanded
Details_AlwaysOpen(n, rows) ==
  [open |-> TRUE,
   kind |-> IF n # 0 THEN "table" ELSE "placeholder",
   rows |-> IF n # 0 THEN rows ELSE <<>>]

\* <details ${n ? 'open' : ''}> with a table or the placeholder (app.js:63-85)
Details(n, rows) ==
  [open |-> n # 0,
   kind |-> IF n # 0 THEN "table" ELSE "placeholder",
   rows |-> IF n # 0 THEN rows ELSE <<>>]

renderLog(r) ==
  LET changes == OrEmptyArr(r.changes).v
      errors == OrEmptyArr(r.errors).v
      rowsChanges == [i \in 1..Len(changes) |-> ChangeRow(changes[i])]
      rowsErrors == [i \in 1..Len(errors) |-> ErrorRow(errors[i])]
  IN [date |-> esc(r.date),
      result |-> esc(r.result),
      changesCount |-> Len(changes),
      errorsCount |-> Len(errors),
      mock |-> IF Truthy(r.meta) /\ Truthy(r.meta.mock) THEN "true" ELSE "false",
      summary |-> esc(OrEmpty(r.summary)),
      changes |-> Details(Len(changes), rowsChanges),
      errors |-> Details(Len(errors), rowsErrors)]

-----------------------------------------------------------------------------
(* renderList (app.js:90-100) *)

ItemRow(it) ==
  [code |-> esc(it.code), title |-> esc(it.title), query |-> esc(OrEmpty(it.query))]

renderList(items) ==
  IF ~Truthy(items) \/ Len(items.v) = 0
  THEN [kind |-> "placeholder", rows |-> <<>>]
  ELSE [kind |-> "table", rows |-> [i \in 1..Len(items.v) |-> ItemRow(items.v[i])]]

-----------------------------------------------------------------------------
(* The resources (spec section 6) and the responses of the host *)

DataPath == "../data_test.json"
NfpcPath == "../standards_nfpc_test.json"
NftcPath == "../standards_nftc_test.json"
Paths == {DataPath, NfpcPath, NftcPath}

\* a parsed JSON object: a property that is absent reads as undefined
Obj(records, items) == [t |-> "object", records |-> records, items |-> items]

Meta(mock) == [t |-> "object", mock |-> Bool(mock)]

Ref(url) == [t |-> "object", url |-> url]

BaseChange ==
  [t |-> "object", code |-> Str(<<"c">>), title |-> Str(<<"t">>), noticeNo |-> Undef,
   announceDate |-> Undef, effectiveDate |-> Undef, reason |-> Undef, refs |-> Undef]

BaseError ==
  [t |-> "object", code |-> Undef, title |-> Undef, where |-> Undef, kind |-> Undef,
   status |-> Undef, contentType |-> Undef, head |-> Undef]

BaseItem == [t |-> "object", code |-> Str(<<"c">>), title |-> Str(<<"t">>), query |-> Undef]

BaseRecord ==
  [t |-> "object", date |-> Str(<<"d">>), result |-> Str(<<"O", "K">>), summary |-> Undef,
   meta |-> Undef, changes |-> Undef, errors |-> Undef]

NTimes(x, n) == [i \in 1..n |-> x]

\* an array property: absent, or an array of 0..MaxEntries entries
ArrChoices(x) == {Undef} \cup {Arr(NTimes(x, n)) : n \in 0..MaxEntries}

SampleChange ==
  [BaseChange EXCEPT !.reason = Str(<<"<", "b", ">">>),
                     !.refs = Arr(<<Ref(Str(<<"u", "&">>)), Ref(Undef)>>)]

SampleError ==
  [BaseError EXCEPT !.status = Str(<<"5", "0", "0">>), !.head = Str(<<"<", "!">>)]

RunRecords ==
  {[BaseRecord EXCEPT !.summary = s, !.meta = m, !.changes = c, !.errors = e] :
     s \in {Undef, Str(<<"s", "&">>)},
     m \in {Undef, Meta(FALSE), Meta(TRUE)},
     c \in ArrChoices(SampleChange),
     e \in ArrChoices(SampleError)}

\* the run-log documents of the data model: { records: [RunRecord, ...] },
\* records absent, empty, or holding one or two records
RunLogDocs ==
  {Obj(Undef, Undef), Obj(Arr(<<>>), Undef),
   Obj(Arr(<<BaseRecord, [BaseRecord EXCEPT !.changes = Arr(<<SampleChange>>)]>>), Undef)}
  \cup {Obj(Arr(<<r>>), Undef) : r \in RunRecords}

\* the inventory documents of the data model: { items: [InventoryItem, ...] }
InventoryDocs ==
  {Obj(Undef, Undef)}
  \cup {Obj(Undef, Arr(NTimes(BaseItem, n))) : n \in 0..MaxEntries}

CtJson == <<"a","p","p","l","i","c","a","t","i","o","n","/","j","s","o","n">>
CtJsonUpper == <<"A","p","p","l","i","c","a","t","i","o","n","/","J","S","O","N">>
CtOctet == <<"a","p","p","l","i","c","a","t","i","o","n","/","o","c","t","e","t","-",
             "s","t","r","e","a","m">>
CtHtml == <<"t","e","x","t","/","h","t","m","l">>

\* content-type headers: none, or one of the above
ContentTypes == {Null, Str(CtJson), Str(CtJsonUpper), Str(CtOctet), Str(CtHtml)}

\* a body that is a JSON text; of its text the code reads only that it is
\* not blank (app.js:6), so a short stand-in is kept
JsonBody(doc) == [text |-> <<"{", "}">>, json |-> [ok |-> TRUE, value |-> doc]]

\* a body that is no JSON text
RawBody(text) == [text |-> text, json |-> [ok |-> FALSE, value |-> Undef]]

Response(status, ct, body) == [net |-> TRUE, status |-> status, ct |-> ct, body |-> body]

\* fetch() rejects: no response
NetworkFailure == [net |-> FALSE, status |-> 0, ct |-> Null, body |-> RawBody(<<>>)]

HtmlText == <<"<", "h", "t", "m", "l", ">">>

\* the responses of a load that make the retrieval fail
FailResponses ==
  {NetworkFailure,
   Response(404, Str(CtHtml), RawBody(HtmlText)),
   Response(500, Null, RawBody(<<>>)),
   Response(200, Str(CtJson), RawBody(<<>>)),
   Response(200, Str(CtOctet), RawBody(<<" ", "\n">>)),
   Response(200, Str(CtHtml), RawBody(HtmlText)),
   Response(200, Str(CtJson), RawBody(HtmlText))}

OkResponses(docs) ==
  {Response(200, ct, JsonBody(d)) : ct \in {Str(CtJson), Str(CtOctet)}, d \in docs}

Responses(path) ==
  FailResponses \cup OkResponses(IF path = DataPath THEN RunLogDocs ELSE InventoryDocs)

-----------------------------------------------------------------------------
(* The display surface *)

\* the text an element has from the page markup, before the script writes it
InitialText == <<"#markup">>

\* '데이터 없음'  (app.js:115)
NoDataText == <<"NO_DATA">>
\* 'data_test.json에 records가 없습니다. ...'  (app.js:116)
NoRecordsText == <<"NO_RECORDS: run Actions(Test Check) once">>
\* '로딩 실패'  (app.js:145)
LoadFailedText == <<"LOAD_FAILED">>
\* `최근 실행: ${rec.date}`  (app.js:118)
RecentRunText(r) == <<"RECENT_RUN: ">> \o ToStringJS(r.date)
\* `CHANGES: ${c}`, `ERRORS: ${e}`  (app.js:126-127)
CountText(label, n) == <<label, ToString(n)>>

\* innerHTML of a section: what the markup has, or what the script assigned
Unwritten == [written |-> FALSE, html |-> <<>>]
Written(h) == [written |-> TRUE, html |-> h]

\* the class an indicator has from the page markup
InitialClasses == {{}, {"ok"}, {"warn"}, {"bad"}}

NoArg == [fn |-> "", path |-> "", r |-> NetworkFailure, rec |-> Null, items |-> Undef]

NoCall == arg = NoArg /\ out = Undef

Init ==
  /\ pc = "load"
  /\ started = <<>>
  /\ settled = <<>>
  /\ inflight = {}
  /\ data = Undef
  /\ rec = Undef
  /\ nfpc = Undef
  /\ \E c \in InitialClasses :
       /\ runPill = [cls |-> c, text |-> InitialText]
       /\ modePill = [cls |-> c, text |-> InitialText]
       /\ changesPill = [cls |-> c, text |-> InitialText]
       /\ errorsPill = [cls |-> c, text |-> InitialText]
  /\ statusText = InitialText
  /\ log = Unwritten
  /\ nfpcList = Unwritten
  /\ nftcList = Unwritten
  /\ console = <<>>
  /\ NoCall

-----------------------------------------------------------------------------
(* The load sequence (app.js:102-149) *)

\* the handler marking the failure with the attention state
Catch_WarnState(err) ==
  /\ runPill' = SetText(pill(runPill, "warn"), LoadFailedText)
  /\ statusText' = StringOfError(err)
  /\ console' = Append(console, err)
  /\ pc' = "done"

\* the handler leaving the text of the run indicator as it was
Catch_NoBannerText(err) ==
  /\ runPill' = pill(runPill, "bad")
  /\ statusText' = StringOfError(err)
  /\ console' = Append(console, err)
  /\ pc' = "done"

\* the handler running the load sequence again
Catch_Retry(err) ==
  /\ runPill' = SetText(pill(runPill, "bad"), LoadFailedText)
  /\ statusText' = StringOfError(err)
  /\ console' = Append(console, err)
  /\ pc' = "load"

\* catch(err) { ... }  (app.js:143-148)
Catch(err) ==
  /\ runPill' = SetText(pill(runPill, "bad"), LoadFailedText)
  /\ statusText' = StringOfError(err)
  /\ console' = Append(console, err)
  /\ pc' = "done"

\* the no-record branch using the failure state
ShowNoData_Bad ==
  /\ runPill' = SetText(pill(runPill, "bad"), NoDataText)
  /\ statusText' = NoRecordsText
  /\ UNCHANGED <<modePill, changesPill, errorsPill, log>>

\* if(!rec) { ... }  (app.js:113-116)
ShowNoData ==
  /\ runPill' = SetText(pill(runPill, "warn"), NoDataText)
  /\ statusText' = NoRecordsText
  /\ UNCHANGED <<modePill, changesPill, errorsPill, log>>

\* else { ... }  (app.js:117-135)
ShowRecord(r) ==
  LET mock == Truthy(r.meta) /\ Truthy(r.meta.mock)
      c == Len(OrEmptyArr(r.changes).v)
      e == Len(OrEmptyArr(r.errors).v)
  IN /\ runPill' = SetText(runPill, RecentRunText(r))
     /\ modePill' = pill(SetText(modePill, IF mock THEN <<"MODE: MOCK">> ELSE <<"MODE: LIVE">>),
                         IF mock THEN "warn" ELSE "ok")
     /\ changesPill' = pill(SetText(changesPill, CountText("CHANGES: ", c)),
                            IF c # 0 THEN "warn" ELSE "ok")
     /\ errorsPill' = pill(SetText(errorsPill, CountText("ERRORS: ", e)),
                           IF e # 0 THEN "bad" ELSE "ok")
     /\ statusText' = ToStringJS(OrEmpty(r.summary))
     /\ log' = Written(renderLog(r))

\* a failed retrieval is handed to fetch() once more
Advance_Retry(path, ok, next) ==
  /\ settled' = Append(settled, [path |-> path, ok |-> ok])
  /\ started' = IF next # "" THEN Append(started, next)
                ELSE IF ~ok THEN Append(started, path) ELSE started
  /\ inflight' = (inflight \ {path}) \cup (IF next = "" THEN {} ELSE {next})

\* the retrieval of path has settled; next, if any, is handed to fetch()
Advance(path, ok, next) ==
  /\ settled' = Append(settled, [path |-> path, ok |-> ok])
  /\ started' = IF next = "" THEN started ELSE Append(started, next)
  /\ inflight' = (inflight \ {path}) \cup (IF next = "" THEN {} ELSE {next})

\* the script runs up to its first await (app.js:102-110)
Start ==
  /\ pc = "load"
  /\ started' = Append(started, DataPath)
  /\ inflight' = inflight \cup {DataPath}
  /\ pc' = "await_data"
  /\ UNCHANGED <<settled, data, rec, nfpc, dom, console, arg, out>>

\* data = await fetchJson('../data_test.json') settles; the sequence runs on
\* to the next await or into the handler (app.js:110-138)
SettleData ==
  /\ pc = "await_data"
  /\ \E r \in Responses(DataPath) :
       LET res == fetchJson(DataPath, r)
       IN IF ~res.ok
          THEN /\ Advance(DataPath, FALSE, "")
               /\ Catch(res.err)
               /\ UNCHANGED <<data, rec, modePill, changesPill, errorsPill, log>>
          ELSE LET first == IF Truthy(res.value.records)
                            THEN First(res.value.records) ELSE Undef
                   r0 == IF Truthy(first) THEN first ELSE Null
               IN /\ data' = res.value
                  /\ rec' = r0
                  /\ IF ~Truthy(r0) THEN ShowNoData ELSE ShowRecord(r0)
                  /\ Advance(DataPath, TRUE, NfpcPath)
                  /\ pc' = "await_nfpc"
                  /\ UNCHANGED console
  /\ UNCHANGED <<nfpc, nfpcList, nftcList, arg, out>>

\* nfpc = await fetchJson('../standards_nfpc_test.json') settles (app.js:138-139)
SettleNfpc ==
  /\ pc = "await_nfpc"
  /\ \E r \in Responses(NfpcPath) :
       LET res == fetchJson(NfpcPath, r)
       IN IF ~res.ok
          THEN /\ Advance(NfpcPath, FALSE, "")
               /\ Catch(res.err)
               /\ UNCHANGED nfpc
          ELSE /\ nfpc' = res.value
               /\ Advance(NfpcPath, TRUE, NftcPath)
               /\ pc' = "await_nftc"
               /\ UNCHANGED <<runPill, statusText, console>>
  /\ UNCHANGED <<data, rec, modePill, changesPill, errorsPill, log, nfpcList,
                 nftcList, arg, out>>

\* nftc = await fetchJson('../standards_nftc_test.json') settles; both lists
\* are rendered (app.js:139-141)
SettleNftc ==
  /\ pc = "await_nftc"
  /\ \E r \in Responses(NftcPath) :
       LET res == fetchJson(NftcPath, r)
       IN IF ~res.ok
          THEN /\ Advance(NftcPath, FALSE, "")
               /\ Catch(res.err)
               /\ UNCHANGED <<nfpcList, nftcList>>
          ELSE /\ Advance(NftcPath, TRUE, "")
               /\ nfpcList' = Written(renderList(nfpc.items))
               /\ nftcList' = Written(renderList(res.value.items))
               /\ pc' = "done"
               /\ UNCHANGED <<runPill, statusText, console>>
  /\ UNCHANGED <<data, rec, nfpc, modePill, changesPill, errorsPill, log, arg, out>>

Next == Start \/ SettleData \/ SettleNfpc \/ SettleNftc

Spec == Init /\ [][Next]_vars

\* every script task the host has queued runs, and every started retrieval
\* settles (the premise of the termination claim)
SpecLive == Spec /\ WF_vars(Start) /\ WF_vars(SettleData) /\ WF_vars(SettleNfpc)
                 /\ WF_vars(SettleNftc)

-----------------------------------------------------------------------------
(* The functions called on their own: fetchJson, renderLog, renderList *)

Alphabet == {"&", "<", ">", "\"", "'", "a", ";"}

\* every string over the alphabet of at most MaxStrLen characters
Strings == UNION {[1..k -> Alphabet] : k \in 0..MaxStrLen}

\* a string property: absent, or one of the strings
Values == {Undef} \cup {Str(s) : s \in Strings}

Pad(n) == [i \in 1..n |-> "a"]

\* heads around the truncation limit, the data characters at the cut
LongHeads ==
  {Str(Pad(n) \o s) : n \in (HeadLimit - 2)..HeadLimit, s \in Strings}

RecordFields == {"date", "result", "summary"}
ChangeFields == {"code", "title", "noticeNo", "announceDate", "effectiveDate", "reason"}
ErrorFields == {"code", "title", "where", "kind", "status", "contentType", "head"}
ItemFields == {"code", "title", "query"}

\* entries before the one under test, up to MaxEntries in the array
Before(x) == {NTimes(x, n) : n \in 0..(MaxEntries - 1)}

RenderLogInputs ==
  {[BaseRecord EXCEPT ![f] = v] : f \in RecordFields, v \in Values}
  \cup {[BaseRecord EXCEPT !.changes = Arr(b \o <<[BaseChange EXCEPT ![f] = v]>>)] :
          f \in ChangeFields, v \in Values, b \in Before(SampleChange)}
  \cup {[BaseRecord EXCEPT !.changes = Arr(<<[BaseChange EXCEPT !.refs = Arr(b \o <<Ref(v)>>)]>>)] :
          v \in Values, b \in Before(Ref(Str(<<"u">>)))}
  \cup {[BaseRecord EXCEPT !.errors = Arr(b \o <<[BaseError EXCEPT ![f] = v]>>)] :
          f \in ErrorFields, v \in Values, b \in Before(SampleError)}
  \cup {[BaseRecord EXCEPT !.errors = Arr(<<[BaseError EXCEPT !.head = v]>>)] :
          v \in LongHeads}

RenderListInputs ==
  {Undef, Arr(<<>>)}
  \cup {Arr(b \o <<[BaseItem EXCEPT ![f] = v]>>) :
          f \in ItemFields, v \in Values, b \in Before(BaseItem)}

Statuses == {199, 200, 299, 300, 404, 500}

\* texts that are no JSON text: blank ones among them
ShortTexts == UNION {[1..k -> {" ", "\n", "<"}] : k \in 0..MaxStrLen}

\* undecodable texts around the diagnostic limit; the characters past the
\* limit differ from those before it
LongTexts ==
  {[i \in 1..n |-> IF i > DiagLimit THEN "!" ELSE "x"] :
     n \in (DiagLimit - 1)..(DiagLimit + MaxOver)}

Bodies ==
  {RawBody(t) : t \in ShortTexts \cup LongTexts}
  \cup {JsonBody(Obj(Undef, Undef)), JsonBody(Obj(Arr(<<>>), Undef))}

FetchInputs ==
  {NetworkFailure}
  \cup {Response(st, ct, b) : st \in Statuses, ct \in ContentTypes, b \in Bodies}

CallArgs ==
  {[NoArg EXCEPT !.fn = "fetchJson", !.path = p, !.r = r] : p \in Paths, r \in FetchInputs}
  \cup {[NoArg EXCEPT !.fn = "renderLog", !.rec = r] : r \in RenderLogInputs}
  \cup {[NoArg EXCEPT !.fn = "renderList", !.items = i] : i \in RenderListInputs}

InitCall ==
  /\ pc = "call"
  /\ arg \in CallArgs
  /\ out = Undef
  /\ started = <<>>
  /\ settled = <<>>
  /\ inflight = {}
  /\ data = Undef
  /\ rec = Undef
  /\ nfpc = Undef
  /\ runPill = [cls |-> {}, text |-> InitialText]
  /\ modePill = [cls |-> {}, text |-> InitialText]
  /\ changesPill = [cls |-> {}, text |-> InitialText]
  /\ errorsPill = [cls |-> {}, text |-> InitialText]
  /\ statusText = InitialText
  /\ log = Unwritten
  /\ nfpcList = Unwritten
  /\ nftcList = Unwritten
  /\ console = <<>>

NoLoad ==
  UNCHANGED <<started, settled, inflight, data, rec, nfpc, dom, console, arg>>

FetchJsonCall ==
  /\ pc = "call"
  /\ arg.fn = "fetchJson"
  /\ out' = fetchJson(arg.path, arg.r)
  /\ pc' = "returned"
  /\ NoLoad

RenderLogCall ==
  /\ pc = "call"
  /\ arg.fn = "renderLog"
  /\ out' = renderLog(arg.rec)
  /\ pc' = "returned"
  /\ NoLoad

RenderListCall ==
  /\ pc = "call"
  /\ arg.fn = "renderList"
  /\ out' = renderList(arg.items)
  /\ pc' = "returned"
  /\ NoLoad

NextCall == FetchJsonCall \/ RenderLogCall \/ RenderListCall

SpecCall == InitCall /\ [][NextCall]_vars

-----------------------------------------------------------------------------
(* Properties of fetchJson, checked under SpecCall *)

\* fetchJson was called on a response the host delivered, and has returned
FetchReturned == pc = "returned" /\ arg.fn = "fetchJson" /\ arg.r.net

IsBlank(text) == \A i \in 1..Len(text) : text[i] \in {" ", "\n", "\t", "\r"}

SuccessStatus(st) == st \in 200..299

EndsWith(s, suffix) ==
  /\ Len(s) >= Len(suffix)
  /\ SubSeq(s, Len(s) - Len(suffix) + 1, Len(s)) = suffix

\* the failure is the one made by the code with this message prefix
FailsAs(kind) ==
  /\ ~out.ok
  /\ out.err.name = "Error"
  /\ out.err.message # <<>>
  /\ Head(out.err.message) = kind

IsDecodeFailure ==
  ~out.ok /\ (out.err.name = "SyntaxError" \/ FailsAs("NOT_JSON "))

\* C1: fetchJson checks the status first and the blank body second. Every
\* response with a non-success status fails with the HTTP error, which
\* carries the status code and the path, whatever body and content type it
\* has; every success-status response with an empty or whitespace-only body
\* fails with the EMPTY error, which carries the path, whatever the content
\* type; and an empty-body failure is never a decode failure, nor is the
\* failure of a non-blank body ever the EMPTY error.
C1_StatusThenBlank ==
  FetchReturned =>
    /\ ~SuccessStatus(arg.r.status) =>
         /\ FailsAs("HTTP ")
         /\ ToString(arg.r.status) \in Range(out.err.message)
         /\ arg.path \in Range(out.err.message)
    /\ (SuccessStatus(arg.r.status) /\ IsBlank(arg.r.body.text)) =>
         /\ FailsAs("EMPTY ")
         /\ arg.path \in Range(out.err.message)
         /\ ~IsDecodeFailure
    /\ ~IsBlank(arg.r.body.text) => ~FailsAs("EMPTY ")

\* C1 witness: a non-success response whose body is blank and whose content
\* type says json has been answered with the HTTP error
C1_Witness ==
  /\ FetchReturned
  /\ arg.r.status = 404
  /\ arg.r.body.text = <<" ", "\n">>
  /\ arg.r.ct = Str(CtJson)
  /\ out.err.message = <<"HTTP ", "404", " ", arg.path>>

\* the body is not blank and the decoder rejects it
Undecodable(body) == ~IsBlank(body.text) /\ ~body.json.ok

\* C2 (as claimed): every success-status response with a non-blank body
\* that cannot be decoded fails with the NOT_JSON error carrying the path,
\* the declared content type and exactly the first 120 characters of the
\* body, for every declared content type, those containing 'json' included.
C2_NotJsonForEveryContentType ==
  (FetchReturned /\ SuccessStatus(arg.r.status) /\ Undecodable(arg.r.body)) =>
    /\ FailsAs("NOT_JSON ")
    /\ arg.path \in Range(out.err.message)
    /\ LET ct == IF arg.r.ct.t = "string" THEN ToLowerCase(arg.r.ct.v) ELSE <<>>
           head == SubSeq(arg.r.body.text, 1,
                          IF Len(arg.r.body.text) > 120 THEN 120 ELSE Len(arg.r.body.text))
       IN EndsWith(out.err.message, <<" ct=">> \o ct \o <<" head=">> \o head)

-----------------------------------------------------------------------------
(* Properties of the renderers' escaping, checked under SpecCall *)

LogReturned == pc = "returned" /\ arg.fn = "renderLog"
ListReturned == pc = "returned" /\ arg.fn = "renderList"

\* the five characters and the entity each must become
EntityTable ==
  {<<"&", <<"&", "a", "m", "p", ";">> >>,
   <<"<", <<"&", "l", "t", ";">> >>,
   <<">", <<"&", "g", "t", ";">> >>,
   <<"\"", <<"&", "q", "u", "o", "t", ";">> >>,
   <<"'", <<"&", "#", "3", "9", ";">> >>}

StartsWith(s, prefix) ==
  Len(s) >= Len(prefix) /\ SubSeq(s, 1, Len(prefix)) = prefix

\* no raw <, >, ", ' and & only as the first character of an entity
OnlyEscaped(frag) ==
  \A i \in 1..Len(frag) :
    /\ frag[i] \notin {"<", ">", "\"", "'"}
    /\ frag[i] = "&" =>
         \E p \in EntityTable : StartsWith(SubSeq(frag, i, Len(frag)), p[2])

\* reading the fragment back: an entity is the character it stands for
RECURSIVE Decode(_)
Decode(frag) ==
  IF frag = <<>> THEN <<>>
  ELSE IF \E p \in EntityTable : StartsWith(frag, p[2])
  THEN LET p == CHOOSE q \in EntityTable : StartsWith(frag, q[2])
       IN <<p[1]>> \o Decode(SubSeq(frag, Len(p[2]) + 1, Len(frag)))
  ELSE <<Head(frag)>> \o Decode(Tail(frag))

\* the source string of a field: an absent field is rendered as ''
RawOf(v) == IF v.t = "string" THEN v.v ELSE <<>>

\* frag is raw with each of the five characters replaced by its own entity
\* and every other character kept in place
EscapedFrom(frag, raw) ==
  /\ OnlyEscaped(frag)
  /\ Decode(frag) = raw
  /\ Len(frag) = Len(raw) + Cardinality({i \in 1..Len(raw) : raw[i] \in {"<", ">"}}) * 3
                          + Cardinality({i \in 1..Len(raw) : raw[i] \in {"&", "'"}}) * 4
                          + Cardinality({i \in 1..Len(raw) : raw[i] = "\""}) * 5

LinkOpen == "<a href=\""
LinkClose == "\" target=\"_blank\" rel=\"noreferrer\">LINK</a>"

\* the href fragments of a refs cell are the escaped urls of the refs that
\* have one, in order
RECURSIVE Hrefs(_)
Hrefs(cell) ==
  IF cell = <<>> THEN <<>>
  ELSE IF Head(cell) = LinkOpen
  THEN LET q == CHOOSE j \in 2..Len(cell) :
                  cell[j] = LinkClose /\ \A k \in 2..(j - 1) : cell[k] # LinkClose
       IN <<SubSeq(cell, 2, q - 1)>> \o Hrefs(SubSeq(cell, q + 1, Len(cell)))
  ELSE Hrefs(Tail(cell))

RECURSIVE Urls(_)
Urls(refs) ==
  IF refs = <<>> THEN <<>>
  ELSE (IF RawOf(Head(refs).url) # <<>> THEN <<RawOf(Head(refs).url)>> ELSE <<>>)
       \o Urls(Tail(refs))

RefsEscaped(cell, refs) ==
  /\ Len(Hrefs(cell)) = Len(Urls(refs))
  /\ \A k \in 1..Len(Urls(refs)) : EscapedFrom(Hrefs(cell)[k], Urls(refs)[k])
  /\ \A i \in 1..Len(cell) : cell[i] \notin {"<", ">", "\"", "'"}

ArrayOf(x) == IF x.t = "array" THEN x.v ELSE <<>>

\* C7: every string of the fetched data that renderLog or renderList embeds
\* (record date, result, summary; every field of every ChangeEntry and
\* ErrorEntry, reference urls and head included; every field of every
\* InventoryItem) is embedded escaped: the fragment has none of the raw
\* characters <, >, ", ', has & only as the start of one of the five
\* entities, and is the source string with each of the five characters
\* replaced by exactly its own entity and every other character in place.
C7_EveryFieldEscaped ==
  /\ LogReturned =>
       LET changes == ArrayOf(arg.rec.changes)
           errors == ArrayOf(arg.rec.errors)
       IN /\ \A f \in RecordFields : EscapedFrom(out[f], RawOf(arg.rec[f]))
          /\ Len(out.changes.rows) = Len(changes)
          /\ \A i \in 1..Len(changes) :
               /\ \A f \in ChangeFields :
                    EscapedFrom(out.changes.rows[i][f], RawOf(changes[i][f]))
               /\ RefsEscaped(out.changes.rows[i].refs, ArrayOf(changes[i].refs))
          /\ Len(out.errors.rows) = Len(errors)
          /\ \A i \in 1..Len(errors) :
               /\ \A f \in ErrorFields \ {"head"} :
                    EscapedFrom(out.errors.rows[i][f], RawOf(errors[i][f]))
               /\ EscapedFrom(out.errors.rows[i].headTitle, RawOf(errors[i].head))
               /\ OnlyEscaped(out.errors.rows[i].headCell)
  /\ ListReturned =>
       LET items == ArrayOf(arg.items)
       IN /\ Len(out.rows) = Len(items)
          /\ \A i \in 1..Len(items) : \A f \in ItemFields :
               EscapedFrom(out.rows[i][f], RawOf(items[i][f]))

\* C7 witness: a change whose reason holds an entity-like text and an
\* apostrophe has been rendered with both escaped
C7_Witness ==
  /\ LogReturned
  /\ arg.rec.changes.t = "array"
  /\ Len(arg.rec.changes.v) = 1
  /\ arg.rec.changes.v[1].reason = Str(<<"&", "'">>)
  /\ out.changes.rows[1].reason = <<"&", "a", "m", "p", ";", "&", "#", "3", "9", ";">>

\* C9: for every ErrorEntry the visible head cell is the escaped form of the
\* first 60 characters of the raw head, followed by the ellipsis exactly
\* when the raw head is longer than 60 characters; the hover attribute is
\* the escaped form of the whole head; an absent head gives an empty cell.
C9_HeadTruncatedThenEscaped ==
  LogReturned =>
    LET errors == ArrayOf(arg.rec.errors)
    IN \A i \in 1..Len(errors) :
         LET raw == RawOf(errors[i].head)
             cell == out.errors.rows[i].headCell
             long == Len(raw) > 60
             shown == IF long THEN SubSeq(cell, 1, Len(cell) - 1) ELSE cell
         IN /\ long => (cell # <<>> /\ cell[Len(cell)] = "...")
            /\ "..." \notin Range(shown)
            /\ EscapedFrom(shown, IF long THEN SubSeq(raw, 1, 60) ELSE raw)
            /\ EscapedFrom(out.errors.rows[i].headTitle, raw)
            /\ errors[i].head.t = "undefined" => cell = <<>>

\* C9 witness: a head of 61 characters whose 60th is < and whose 61st is &
\* is shown as 59 characters, the entity of < and the ellipsis
C9_Witness ==
  /\ LogReturned
  /\ arg.rec.errors.t = "array"
  /\ Len(arg.rec.errors.v) = 1
  /\ arg.rec.errors.v[1].head = Str(Pad(59) \o <<"<", "&">>)
  /\ out.errors.rows[1].headCell = Pad(59) \o <<"&", "l", "t", ";", "...">>
  /\ out.errors.rows[1].headTitle = Pad(59) \o <<"&", "l", "t", ";", "&", "a", "m", "p", ";">>

-----------------------------------------------------------------------------
(* Properties of the load sequence, checked under Spec and SpecLive *)

LoadOrder == <<DataPath, NfpcPath, NftcPath>>

StateClasses == {"ok", "warn", "bad"}

\* the last retrieval that settled was rejected
Failed(s) == s # <<>> /\ ~s[Len(s)].ok

\* C3: the retrievals are started in the order run log, NFPC, NFTC; one is
\* started only after the one before it has completed successfully, so at
\* most one is in flight; each resource is requested at most once.
C3_SequentialOnce ==
  /\ Len(started) <= 3
  /\ started = SubSeq(LoadOrder, 1, Len(started))
  /\ Cardinality(inflight) <= 1
  /\ inflight \subseteq (IF started = <<>> THEN {} ELSE {started[Len(started)]})
  /\ \A k \in 2..Len(started) :
       /\ Len(settled) >= k - 1
       /\ settled[k - 1] = [path |-> started[k - 1], ok |-> TRUE]
  /\ \A k \in 1..Len(settled) : settled[k].path = LoadOrder[k]

\* C3 witness: all three retrievals were made and completed, one after the other
C3_Witness ==
  /\ pc = "done"
  /\ started = LoadOrder
  /\ Len(settled) = 3
  /\ \A k \in 1..3 : settled[k].ok
  /\ inflight = {}

\* the description of the error the handler was given, as String(err) gives it
ErrorShown ==
  /\ console # <<>>
  /\ statusText = <<console[Len(console)].name, ": ">> \o console[Len(console)].message

\* C4: when a retrieval fails (whichever of the three), the handler puts the
\* run indicator in the failure state and the stringified error in the
\* status text; no retrieval is started, no section not yet written is
\* written, what was written stays, no inventory section is written in that
\* load; and nothing happens after the failure.
C4_FailFast ==
  [][ /\ (Len(settled') = Len(settled) + 1 /\ Failed(settled')) =>
           /\ runPill' = [cls |-> (runPill.cls \ StateClasses) \cup {"bad"},
                          text |-> LoadFailedText]
           /\ Len(console') = Len(console) + 1
           /\ ErrorShown'
           /\ console'[Len(console')].name = "Error" =>
                settled'[Len(settled')].path \in Range(console'[Len(console')].message)
           /\ started' = started
           /\ inflight' = {}
           /\ UNCHANGED <<modePill, changesPill, errorsPill, log, nfpcList, nftcList>>
           /\ ~nfpcList'.written /\ ~nftcList'.written
      /\ Failed(settled) => UNCHANGED vars
    ]_vars

\* C4 witness: the NFTC retrieval failed after the run report was written;
\* the report is still there and no inventory list was written
C4_Witness ==
  /\ Len(settled) = 3
  /\ Failed(settled)
  /\ runPill.text = LoadFailedText
  /\ "bad" \in runPill.cls
  /\ log.written
  /\ ~nfpcList.written
  /\ ~nftcList.written

Populated ==
  \/ modePill.text # InitialText
  \/ changesPill.text # InitialText
  \/ errorsPill.text # InitialText

AllPopulated ==
  /\ modePill.text # InitialText
  /\ changesPill.text # InitialText
  /\ errorsPill.text # InitialText

NormalReport ==
  /\ Head(runPill.text) = "RECENT_RUN: "
  /\ log.written
  /\ AllPopulated
  /\ nfpcList.written
  /\ nftcList.written

NoDataNotice ==
  /\ runPill.text = NoDataText
  /\ "warn" \in runPill.cls
  /\ statusText = NoRecordsText
  /\ nfpcList.written
  /\ nftcList.written

FailureBanner ==
  /\ runPill.text = LoadFailedText
  /\ "bad" \in runPill.cls
  /\ ErrorShown

ExactlyOneOutcome ==
  /\ NormalReport \/ NoDataNotice \/ FailureBanner
  /\ ~(NormalReport /\ NoDataNotice)
  /\ ~(NormalReport /\ FailureBanner)
  /\ ~(NoDataNotice /\ FailureBanner)

NoRecordDoc(d) == d.t = "object" /\ (d.records.t # "array" \/ d.records.v = <<>>)

C8_SectionsByEmptiness ==
  (pc \in {"await_nfpc", "await_nftc", "done"} /\ rec.t = "object") =>
    /\ log.written
    /\ LET nc == IF rec.changes.t = "array" THEN Len(rec.changes.v) ELSE 0
           ne == IF rec.errors.t = "array" THEN Len(rec.errors.v) ELSE 0
           h == log.html
       IN /\ h.changes.open <=> nc > 0
          /\ h.changes.kind = (IF nc > 0 THEN "table" ELSE "placeholder")
          /\ Len(h.changes.rows) = nc
          /\ changesPill.cls \cap StateClasses = (IF nc > 0 THEN {"warn"} ELSE {"ok"})
          /\ changesPill.text = <<"CHANGES: ", ToString(Len(h.changes.rows))>>
          /\ h.changesCount = Len(h.changes.rows)
          /\ h.errors.open <=> ne > 0
          /\ h.errors.kind = (IF ne > 0 THEN "table" ELSE "placeholder")
          /\ Len(h.errors.rows) = ne
          /\ errorsPill.cls \cap StateClasses = (IF ne > 0 THEN {"bad"} ELSE {"ok"})
          /\ errorsPill.text = <<"ERRORS: ", ToString(Len(h.errors.rows))>>
          /\ h.errorsCount = Len(h.errors.rows)

\* C8 witness: a record with no changes property and two errors: changes
\* collapsed and neutral, errors expanded and critical
C8_Witness ==
  /\ pc = "await_nfpc"
  /\ rec.t = "object"
  /\ rec.changes = Undef
  /\ rec.errors.t = "array"
  /\ Len(rec.errors.v) = 2
  /\ ~log.html.changes.open
  /\ log.html.changes.kind = "placeholder"
  /\ "ok" \in changesPill.cls
  /\ log.html.errors.open
  /\ Len(log.html.errors.rows) = 2
  /\ "bad" \in errorsPill.cls

Terminal ==
  \/ nfpcList.written /\ nftcList.written
  \/ runPill.text = LoadFailedText

\* the load is suspended at its k-th retrieval
SuspendedAt(k) ==
  /\ started = SubSeq(LoadOrder, 1, k)
  /\ Len(settled) = k - 1
  /\ inflight = {LoadOrder[k]}
  /\ runPill.text # LoadFailedText

\* C10: when every started retrieval settles, the load reaches a terminal
\* state (all sections rendered or the handler has run) after at most three
\* retrievals and does nothing afterwards; while a retrieval has not
\* settled the load stays suspended at it, no later retrieval started and
\* no failure banner shown.
C10_TerminatesOrSuspends ==
  /\ <>(pc = "done")
  /\ [](pc = "done" => Terminal /\ inflight = {})
  /\ [](Len(started) <= 3 /\ Len(settled) <= Len(started))
  /\ [][pc = "done" => UNCHANGED vars]_vars
  /\ [](pc = "await_data" => SuspendedAt(1))
  /\ [](pc = "await_nfpc" => SuspendedAt(2))
  /\ [](pc = "await_nftc" => SuspendedAt(3))
  /\ [][(pc \in {"await_data", "await_nfpc", "await_nftc"} /\ settled' = settled)
          => UNCHANGED vars]_vars

\* C10 witness: the load has ended in the handler after its third retrieval
C10_Witness ==
  /\ pc = "done"
  /\ Len(started) = 3
  /\ Len(settled) = 3
  /\ Failed(settled)
  /\ runPill.text = LoadFailedText

====
